---------------------------- MODULE Spec2Model ----------------------------
(***************************************************************************)
(* Model of examples/Custom-LLM-as-a-Judge.ipynb: the judge scorers        *)
(* (numeric_rater, numeric_rater with reasoning, classifier), the          *)
(* agreement metric normalized_diff, and the evaluation run that applies   *)
(* task to every element of hallucinations with bounded concurrency.       *)
(*                                                                         *)
(* Python numbers are modelled as exact rationals in lowest terms; the     *)
(* model's completion endpoint is an oracle that may answer a request with *)
(* any response of the bounded response space, in or out of the declared   *)
(* tool schema.                                                            *)
(*                                                                         *)
(* The last part models examples/custom_image_embedding_search.ipynb:      *)
(* get_image_paths, the search and sort of the two nearest images, and     *)
(* find_entry.                                                             *)
(***************************************************************************)
EXTENDS Integers, Sequences, FiniteSets, TLC

VARIABLES
    experiment,     \* which judge the evaluation cell's task calls
    phase,          \* "sanity": single calls of the judge; "eval": Eval(...) running
    pc,             \* the single judge call: "idle", "rendered", "awaiting",
                    \* "returned", "raised"
    content,        \* the single judge call: outcome of PROMPT.format(...)
    request,        \* the single judge call: the arguments create() was called with
    requests,       \* the single judge call: number of calls of create()
    attempts,       \* the single judge call: times the client sent the request
    response,       \* the response the single judge call received
    result,         \* the outcome of the single judge call
    modelResponse,  \* Eval: the completion the endpoint gives for each item
    status,         \* Eval: per item "pending", "running" (request in flight), "done"
    output,         \* Eval: per item the outcome of task
    scores,         \* Eval: per item the outcome of normalized_diff
    order,          \* Eval: the items in the order their tasks completed
    nd_output,      \* normalized_diff on its own: the output handed to normalized_diff
    nd_expected,    \* normalized_diff on its own: the expected handed to normalized_diff
    nd_result,      \* normalized_diff on its own: the outcome of normalized_diff
    PROMPT,         \* the template the global name PROMPT is bound to
    kwargsA,        \* PROMPT.format on its own: input, output, expected of a call
    kwargsB,        \* PROMPT.format on its own: the arguments of another call
    contentA,       \* PROMPT.format on its own: outcome of rendering kwargsA
    contentB,       \* PROMPT.format on its own: outcome of rendering kwargsB
    sentA,          \* PROMPT.format on its own: create(...) was called with contentA
    cell,           \* data cells: "load", "flattened", "gathering", "gathered",
                    \* "aborted" (the cell ended with a traceback), "filtered"
    full_result,    \* the dataset records: passage, questions, answers
    qa_pairs,       \* the flattened list of QuestionAnswer
    ha_status,      \* per element of qa_pairs, its hallucinate_answer task:
                    \* "pending", "awaiting", "returned", "raised"
    ha_content,     \* per element of qa_pairs, what its task returned
    ha_order,       \* the tasks in the order they ended
    hallucinated_answers,   \* the list asyncio.gather returned
    hallucinations, \* the filtered list of QuestionAnswer
    yielded,        \* the records data() yields, in order
    bindings,       \* what the names numeric_rater, classifier and task are bound to
    prompt_cell,    \* the cell that assigned PROMPT last: "rater" or "classifier"
    doc_pos,        \* cells run in document order: number of cells run so far
    eval_run,       \* cells run in document order: the last Eval run, one item of it
    callA,          \* cells run in any order: a judge invocation
    callB,          \* cells run in any order: a later judge invocation
    seed,           \* generation cell run twice: what random was last seeded with
    genA,           \* generation cell run twice: the first run's seed and hallucinations
    genB,           \* generation cell run twice: the second run's seed and hallucinations
    listdir,        \* image search: os.listdir('image_database/'), the file names
    lookup,         \* image search: a call of get_image_paths(direc, number)
    image_cell,     \* image search: the last cell run: "idle", "listed", "indexed",
                    \* "aborted" (the cell ended with a traceback), "searched",
                    \* "displayed", "selected"
    image_paths,    \* image search: the global list get_image_paths(direc) returned
    index,          \* image search: the paths whose embeddings index holds, in order
    retrieved,      \* image search: zip(indices, distances) as index.search gave them
    indices_distances,  \* image search: the list after the sort
    displayed,      \* image search: the paths the display loop looked up
    json_data,      \* image search: data, the entries read from description.json
    selection       \* image search: similar_path, element and the prompt built

vars == <<experiment, phase, pc, content, request, requests, attempts,
          response, result, modelResponse, status,
          output, scores, order, nd_output, nd_expected, nd_result,
          PROMPT, kwargsA, kwargsB, contentA, contentB, sentA,
          cell, full_result, qa_pairs, ha_status, ha_content, ha_order,
          hallucinated_answers, hallucinations, yielded, bindings, prompt_cell, doc_pos,
          eval_run, callA, callB,
          seed, genA, genB,
          listdir, lookup, image_cell, image_paths, index, retrieved,
          indices_distances, displayed, json_data, selection>>

callVars == <<pc, content, request, requests, attempts, response, result>>
evalVars == <<modelResponse, status, output, scores, order>>
metricVars == <<nd_output, nd_expected, nd_result>>
formatVars == <<kwargsA, kwargsB, contentA, contentB, sentA>>
dataVars == <<cell, full_result, qa_pairs, ha_status, ha_content, ha_order,
              hallucinated_answers, hallucinations, yielded>>
cellVars == <<bindings, prompt_cell, doc_pos, eval_run, callA, callB>>
seedVars == <<seed, genA, genB>>
imageVars == <<listdir, lookup, image_cell, image_paths, index, retrieved,
               indices_distances, displayed, json_data, selection>>
auxVars == <<formatVars, dataVars, cellVars, seedVars, imageVars>>

---------------------------------------------------------------------------
(* Bounds of the model.                                                    *)

\* number of elements of hallucinations handed to Eval
NumItems == 3
\* Eval(max_concurrency=...): 10 in the notebook, scaled down with NumItems
max_concurrency == 2
\* normalized_diff is exercised on the grid {k / GridDen : k \in 0..GridDen}
GridDen == 18
\* PROMPT.format is exercised on argument strings of at most MaxValLen symbols
MaxValLen == 1
\* times the client sends a request again after a transport failure
max_retries == 2
\* the flattening is exercised on at most MaxRecords records of at most
\* MaxQuestions questions each
MaxRecords == 2
MaxQuestions == 2
\* number of questions of the dataset whose answers are hallucinated
NumPairs == 3

(* Constants of the program.                                               *)

\* "rating": {"type": "integer", "minimum": 1, "maximum": 10}
RatingMin == 1
RatingMax == 10

Items == 1..NumItems

---------------------------------------------------------------------------
(* Python numbers: rationals [num, den] in lowest terms, den > 0.          *)

Abs(n) == IF n < 0 THEN -n ELSE n

RECURSIVE GCD(_, _)
GCD(a, b) == IF b = 0 THEN a ELSE GCD(b, a % b)

\* n / d in lowest terms, for d > 0
Reduce(n, d) ==
    IF n = 0 THEN [num |-> 0, den |-> 1]
    ELSE [num |-> n \div GCD(Abs(n), d), den |-> d \div GCD(Abs(n), d)]

\* a / b (the operands are evaluated once)
Frac(a, b) ==
    CHOOSE q \in {Reduce(IF y < 0 THEN -x ELSE x, Abs(y)) : x \in {a}, y \in {b}} : TRUE

\* x - y (the operands are evaluated once)
RatSub(x, y) ==
    CHOOSE q \in {Frac(a.num * b.den - b.num * a.den, a.den * b.den) :
                    a \in {x}, b \in {y}} : TRUE

\* abs(x)
RatAbs(x) == [num |-> Abs(x.num), den |-> x.den]

RatLe(x, y) == x.num * y.den <= y.num * x.den
RatLt(x, y) == x.num * y.den < y.num * x.den

---------------------------------------------------------------------------
(* Python values and the outcome of a call.                                *)

PyNum(q) == [t |-> "num", num |-> q.num, den |-> q.den, s |-> ""]
PyInt(n) == PyNum(Frac(n, 1))
PyNone == [t |-> "none", num |-> 0, den |-> 1, s |-> ""]
PyExc(name) == [t |-> "exc", num |-> 0, den |-> 1, s |-> name]

Rat(v) == [num |-> v.num, den |-> v.den]

Return(v) == [kind |-> "return", value |-> v]
Raise(name) == [kind |-> "raise", value |-> PyExc(name)]
NoOutcome == [kind |-> "none", value |-> PyNone]

---------------------------------------------------------------------------
(* Python strings: sequences of symbols. A literal chunk of a template is  *)
(* one symbol; an argument string is a sequence of symbols.                *)

\* sub in s
Contains(s, sub) ==
    \E i \in 0..(Len(s) - Len(sub)) : SubSeq(s, i + 1, i + Len(sub)) = sub

\* the outcome of str.format
Rendered(s) == [kind |-> "return", text |-> s, exc |-> ""]
RenderFailed(name) == [kind |-> "raise", text |-> <<>>, exc |-> name]
NotRendered == [kind |-> "none", text |-> <<>>, exc |-> ""]

\* no call of create() yet
NoRequest == [content |-> <<>>, temperature |-> 0, tools |-> <<>>, tool_choice |-> ""]

\* a template is a sequence of literal chunks and replacement fields
Lit(s) == [lit |-> s, field |-> ""]
Field(f) == [lit |-> "", field |-> f]

HeadText == "You are comparing ... [BEGIN DATA] ************ [Question]: "
SepExpert == " ************ [Expert]: "
SepSubmission == " ************ [Submission]: "
TailRate == " ************ [END DATA] ... Rate the submission on a scale of 1 to 10."
TailChoice == " ************ [END DATA] ... Select a single choice ... from A, B, C, D, or E."

\* PROMPT of the numeric rater's cell
PROMPT_rate ==
    <<Lit(HeadText), Field("input"), Lit(SepExpert), Field("expected"),
      Lit(SepSubmission), Field("output"), Lit(TailRate)>>

\* PROMPT of the classifier's cell
PROMPT_choice ==
    <<Lit(HeadText), Field("input"), Lit(SepExpert), Field("expected"),
      Lit(SepSubmission), Field("output"), Lit(TailChoice)>>

\* templates PROMPT could be rebound to: one without {output}, one with
\* {input} twice and no {expected}, one with a field format() is not given
TemplateWithoutOutput ==
    <<Lit(HeadText), Field("input"), Lit(SepExpert), Field("expected"), Lit(TailRate)>>
TemplateInputTwice ==
    <<Lit(HeadText), Field("input"), Lit(SepExpert), Field("input"),
      Lit(SepSubmission), Field("output"), Lit(TailRate)>>
TemplateUnknownField ==
    <<Lit(HeadText), Field("input"), Lit(SepExpert), Field("expected"),
      Lit(SepSubmission), Field("context"), Lit(TailRate)>>

\* the symbols an argument string is made of: a letter, and the text of the
\* delimiter the template puts before the expert's answer
Alphabet == {"a", SepExpert}

ArgStrings == UNION {[1..n -> Alphabet] : n \in 0..MaxValLen}

\* input=..., output=..., expected=...
Kwargs == [input : ArgStrings, output : ArgStrings, expected : ArgStrings]

NoKwargs == [input |-> <<>>, output |-> <<>>, expected |-> <<>>]

Templates ==
    {PROMPT_rate, PROMPT_choice, TemplateWithoutOutput, TemplateInputTwice,
     TemplateUnknownField}

\* the text of a template whose fields are all among the keyword arguments
RECURSIVE FormatParts(_, _)
FormatParts(tpl, kw) ==
    IF tpl = <<>> THEN <<>>
    ELSE (IF Head(tpl).field = "" THEN <<Head(tpl).lit>> ELSE kw[Head(tpl).field])
            \o FormatParts(Tail(tpl), kw)

\* faulty variant of format: the submission is rendered in the expert's field
format_output_for_expected(tpl, kw) ==
    IF \E k \in DOMAIN tpl : tpl[k].field # "" /\ tpl[k].field \notin DOMAIN kw
    THEN RenderFailed("KeyError")
    ELSE Rendered(FormatParts(tpl, [kw EXCEPT !.expected = kw.output]))

\* tpl.format(**kw): a field that is not a keyword argument raises KeyError,
\* a keyword argument no field names is ignored
format(tpl, kw) ==
    IF \E k \in DOMAIN tpl : tpl[k].field # "" /\ tpl[k].field \notin DOMAIN kw
    THEN RenderFailed("KeyError")
    ELSE Rendered(FormatParts(tpl, kw))

---------------------------------------------------------------------------
(* The dataset and its flattening into qa_pairs.                           *)

\* a row of full_result: r[1], r[2], r[3]["input_text"]
Record(p, qs, ans) == [passage |-> p, questions |-> qs, answers |-> ans]

QuestionAnswer(p, q, e, g) ==
    [passage |-> p, question |-> q, expected_answer |-> e, generated_answer |-> g]

\* faulty variant of FlattenRecord: every question gets the record's first answer
RECURSIVE FlattenRecordFirstAnswer(_, _)
FlattenRecordFirstAnswer(r, i) ==
    IF i > Len(r.questions) THEN <<>>
    ELSE <<QuestionAnswer(r.passage, r.questions[i], r.answers[1], r.answers[1])>>
            \o FlattenRecordFirstAnswer(r, i + 1)

\* for (i, question) in enumerate(r[2]), from index i on
RECURSIVE FlattenRecord(_, _)
FlattenRecord(r, i) ==
    IF i > Len(r.questions) THEN <<>>
    ELSE <<QuestionAnswer(r.passage, r.questions[i], r.answers[i], r.answers[i])>>
            \o FlattenRecord(r, i + 1)

\* [QuestionAnswer(...) for r in full_result for (i, question) in enumerate(r[2])]
RECURSIVE Flatten(_)
Flatten(rows) ==
    IF rows = <<>> THEN <<>>
    ELSE FlattenRecord(Head(rows), 1) \o Flatten(Tail(rows))

Passages == {"P1", "P2"}
\* the questions of a passage, each different from the others
QuestionTexts == [i \in 1..MaxQuestions |-> "q" \o ToString(i)]
AnswerTexts == {"a1", "a2"}

\* rows whose questions and answers are parallel lists
Records ==
    UNION {{Record(p, SubSeq(QuestionTexts, 1, n), ans) :
                p \in Passages, ans \in [1..n -> AnswerTexts]} : n \in 0..MaxQuestions}

\* the rows whose answers are hallucinated: NumPairs questions over two passages
GatherRows ==
    <<Record("P1", <<"q1">>, <<"a1">>),
      Record("P2", [i \in 1..(NumPairs - 1) |-> "q" \o ToString(i + 1)],
                   [i \in 1..(NumPairs - 1) |-> "a" \o ToString(i + 1)])>>

Datasets == UNION {[1..n -> Records] : n \in 0..MaxRecords}

---------------------------------------------------------------------------
(* The hallucinated answers: message contents, and the yes/no filter.      *)

\* response.choices[0].message.content: a str, or None
Str(text) == [t |-> "str", text |-> text]
NoneContent == [t |-> "none", text |-> <<>>]

Fabrications ==
    {Str(<<"Y", "e", "s">>), Str(<<"N", "o">>),
     Str(<<"n", "o", "t">>), Str(<<"k", "n", "o", "w">>),
     Str(<<"a", "n", "o", "t", "h", "e", "r">>),
     Str(<<"R", "o", "m", "e">>), Str(<<"P", "i", "s", "a">>)}

\* what a hallucinate_answer task ends with: a content, or the client's error
Contents == Fabrications \cup {NoneContent}

LowerChar(c) ==
    IF c = "Y" THEN "y" ELSE IF c = "N" THEN "n" ELSE IF c = "R" THEN "r"
    ELSE IF c = "P" THEN "p" ELSE c

\* str.lower()
lower(text) == [k \in DOMAIN text |-> LowerChar(text[k])]

\* faulty variant of KeepsAnswer: nothing is excluded
KeepsEveryAnswer(h) == TRUE

\* "yes" not in hallucination.lower() and "no" not in hallucination.lower()
KeepsAnswer(h) ==
    /\ ~Contains(lower(h.text), <<"y", "e", "s">>)
    /\ ~Contains(lower(h.text), <<"n", "o">>)

\* the list comprehension over zip(qa_pairs, hallucinated_answers), from k on
RECURSIVE FilterFrom(_, _, _)
FilterFrom(pairs, answers, k) ==
    IF k > Len(pairs) \/ k > Len(answers) THEN <<>>
    ELSE (IF KeepsAnswer(answers[k])
          THEN <<QuestionAnswer(pairs[k].passage, pairs[k].question,
                                pairs[k].expected_answer, answers[k])>>
          ELSE <<>>)
            \o FilterFrom(pairs, answers, k + 1)

\* the outcome of the cell's last statement: .lower() of None raises
Built(list) == [kind |-> "return", list |-> list, exc |-> ""]
BuildFailed(name) == [kind |-> "raise", list |-> <<>>, exc |-> name]
Unbound == [kind |-> "none", list |-> <<>>, exc |-> ""]

\* hallucinated_answers before and after the assignment
NoAnswers == [bound |-> FALSE, list |-> <<>>]
Answers(list) == [bound |-> TRUE, list |-> list]

\* the exception the client raises when the request fails
RequestFailed == [t |-> "error", text |-> <<>>]

\* faulty variant of data_of: the items are labelled as correct answers
data_of_expected_one(list) ==
    [k \in 1..Len(list) |->
        [input |-> list[k], expected |-> PyInt(1), metadata |-> [hallucination |-> TRUE]]]

\* data(): for pair in hallucinations: yield dict(input=dict(asdict(pair)),
\* expected=0, metadata=dict(hallucination=True))
data_of(list) ==
    [k \in 1..Len(list) |->
        [input |-> list[k], expected |-> PyInt(0), metadata |-> [hallucination |-> TRUE]]]

\* faulty variant of GatherResult: the results come in the order the tasks ended
GatherResultAsCompleted(results, ended) ==
    [n \in DOMAIN ended |-> results[ended[n]]]

\* asyncio.gather: the list of results is in the order of the awaitables passed
GatherResult(results, ended) == results

BuildHallucinations(pairs, answers) ==
    IF \E k \in 1..Len(answers) : k <= Len(pairs) /\ answers[k].t = "none"
    THEN BuildFailed("AttributeError")
    ELSE Built(FilterFrom(pairs, answers, 1))

---------------------------------------------------------------------------
(* JSON values inside a tool call's arguments, and the response space.     *)

JInt(n) == [t |-> "int", n |-> n, s |-> ""]
JStr(s) == [t |-> "str", n |-> 0, s |-> s]
JNull == [t |-> "null", n |-> 0, s |-> ""]

\* values the endpoint may put under "rating": in the schema's range, just
\* outside it, and of the wrong type
RatingJson ==
    {JInt(n) : n \in (RatingMin - 1)..(RatingMax + 1)} \cup {JStr("ten"), JNull}

\* values the endpoint may put under "choice": the enum, and outside it
ChoiceJson ==
    {JStr(c) : c \in {"A", "B", "C", "D", "E", "F", "a"}} \cup {JInt(1), JNull}

Reasons == JStr("step by step")

\* the parsed arguments object of a tool call
ArgumentDicts ==
    {[rating |-> v] : v \in RatingJson}
        \cup {[reasons |-> Reasons, rating |-> v] : v \in RatingJson}
        \cup {[choice |-> v] : v \in ChoiceJson}
        \cup {[reasons |-> Reasons, choice |-> v] : v \in ChoiceJson}
        \cup {[reasons |-> Reasons]}

\* function.arguments is a string: well-formed JSON text of an object, or not
ToolCalls ==
    {[wellformed |-> TRUE, object |-> d] : d \in ArgumentDicts}
        \cup {[wellformed |-> FALSE, object |-> [reasons |-> Reasons]]}

\* a second tool call the endpoint may add after the first
ExtraToolCalls ==
    {[wellformed |-> TRUE, object |-> [rating |-> JInt(RatingMin)]],
     [wellformed |-> TRUE, object |-> [reasons |-> Reasons, choice |-> JStr("D")]]}

\* message.tool_calls is None (modelled as <<>>) or a list of tool calls
OkResponse(calls) == [transport |-> "ok", tool_calls |-> calls]
TransportError == [transport |-> "error", tool_calls |-> <<>>]
NoResponse == [transport |-> "none", tool_calls |-> <<>>]

Responses ==
    {TransportError, OkResponse(<<>>)}
        \cup {OkResponse(<<c>>) : c \in ToolCalls}
        \cup {OkResponse(<<c, e>>) : c \in ToolCalls, e \in ExtraToolCalls}

---------------------------------------------------------------------------
(* The judges.  Each takes the response its completion request received    *)
(* and yields what the Python function does with it: a returned value or   *)
(* the exception that propagates.                                          *)

\* faulty variant of numeric_rater: the rating is divided without the shift by 1
numeric_rater_unshifted(resp) ==
    IF resp.transport # "ok" THEN Raise("APIError")
    ELSE IF resp.tool_calls = <<>> THEN Raise("TypeError")
    ELSE LET call == resp.tool_calls[1] IN
        IF ~call.wellformed THEN Raise("JSONDecodeError")
        ELSE LET arguments == call.object IN
            IF "rating" \notin DOMAIN arguments THEN Raise("KeyError")
            ELSE LET rating == arguments["rating"] IN
                IF rating.t # "int" THEN Raise("TypeError")
                ELSE Return(PyNum(Frac(rating.n, 9)))

\* numeric_rater, first definition (rating only in the tool schema)
numeric_rater(resp) ==
    IF resp.transport # "ok" THEN Raise("APIError")
    ELSE IF resp.tool_calls = <<>> THEN Raise("TypeError")
    ELSE LET call == resp.tool_calls[1] IN
        IF ~call.wellformed THEN Raise("JSONDecodeError")
        ELSE LET arguments == call.object IN
            IF "rating" \notin DOMAIN arguments THEN Raise("KeyError")
            ELSE LET rating == arguments["rating"] IN
                IF rating.t # "int" THEN Raise("TypeError")
                ELSE Return(PyNum(Frac(rating.n - 1, 9)))

\* numeric_rater, second definition (reasons added to the tool schema)
numeric_rater_with_reasoning(resp) ==
    IF resp.transport # "ok" THEN Raise("APIError")
    ELSE IF resp.tool_calls = <<>> THEN Raise("TypeError")
    ELSE LET call == resp.tool_calls[1] IN
        IF ~call.wellformed THEN Raise("JSONDecodeError")
        ELSE LET arguments == call.object IN
            IF "rating" \notin DOMAIN arguments THEN Raise("KeyError")
            ELSE LET rating == arguments["rating"] IN
                IF rating.t # "int" THEN Raise("TypeError")
                ELSE Return(PyNum(Frac(rating.n - 1, 9)))

\* faulty variant of CHOICE_SCORES: a superset (B) scored as a full match
CHOICE_SCORES_superset_full ==
    [A |-> PyNum(Frac(1, 2)),
     B |-> PyInt(1),
     C |-> PyInt(1),
     D |-> PyInt(0),
     E |-> PyInt(1)]

\* Since we're testing for hallucinations, penalize (B) as much as (D).
CHOICE_SCORES ==
    [A |-> PyNum(Frac(1, 2)),
     B |-> PyInt(0),
     C |-> PyInt(1),
     D |-> PyInt(0),
     E |-> PyInt(1)]

classifier(resp) ==
    IF resp.transport # "ok" THEN Raise("APIError")
    ELSE IF resp.tool_calls = <<>> THEN Raise("TypeError")
    ELSE LET call == resp.tool_calls[1] IN
        IF ~call.wellformed THEN Raise("JSONDecodeError")
        ELSE LET arguments == call.object IN
            IF "choice" \notin DOMAIN arguments THEN Raise("KeyError")
            ELSE LET choice == arguments["choice"] IN
                IF choice.t = "str" /\ choice.s \in DOMAIN CHOICE_SCORES
                THEN Return(CHOICE_SCORES[choice.s])
                ELSE Return(PyNone)

\* faulty variant of normalized_diff: the difference is taken without abs
normalized_diff_signed(out, expected) ==
    IF out.t # "num" \/ expected.t # "num" THEN Raise("TypeError")
    ELSE Return(PyNum(RatSub(Frac(1, 1), RatSub(Rat(out), Rat(expected)))))

\* 1 - abs(output - expected)
normalized_diff(out, expected) ==
    IF out.t # "num" \/ expected.t # "num" THEN Raise("TypeError")
    ELSE Return(PyNum(RatSub(Frac(1, 1), RatAbs(RatSub(Rat(out), Rat(expected))))))

---------------------------------------------------------------------------
(* The evaluation cells.                                                   *)

Experiments == {"Numeric rater", "Numeric rater with reasoning", "Classifier"}

\* faulty variant of task: the mapping keeps a counter of its calls and maps
\* only the first verdict it is given
task_first_call_only(exp, resp) ==
    IF order # <<>> THEN Return(PyInt(0))
    ELSE IF exp = "Classifier" THEN classifier(resp)
    ELSE IF exp = "Numeric rater with reasoning" THEN numeric_rater_with_reasoning(resp)
    ELSE numeric_rater(resp)

\* task(input): the judge the experiment's task resolves to when it is called
task(exp, resp) ==
    IF exp = "Classifier" THEN classifier(resp)
    ELSE IF exp = "Numeric rater with reasoning" THEN numeric_rater_with_reasoning(resp)
    ELSE numeric_rater(resp)

\* data(): one record per element of hallucinations, expected = 0
data(i) == [input |-> i, expected |-> PyInt(0), metadata |-> [hallucination |-> TRUE]]

\* scores=[normalized_diff]: the harness scores the output of a task that returned
Score(i, out) ==
    IF out.kind = "return" THEN normalized_diff(out.value, data(i).expected)
    ELSE NoOutcome

OneCall(d) == OkResponse(<<[wellformed |-> TRUE, object |-> d]>>)

\* the completions the endpoint may give during an evaluation run
EvalResponses(exp) ==
    IF exp = "Classifier"
    THEN {OneCall([reasons |-> Reasons, choice |-> JStr(c)]) : c \in {"A", "C", "F"}}
            \cup {TransportError}
    ELSE {OneCall([rating |-> JInt(r)]) : r \in {RatingMin, RatingMax, RatingMax + 1}}
            \cup {OkResponse(<<>>)}

Running == {i \in Items : status[i] = "running"}

\* faulty variant of AdmissionOpen: Eval called without max_concurrency
AdmissionUnbounded(running) == TRUE

\* max_concurrency: a task is admitted while fewer than max_concurrency run
AdmissionOpen(running) == Cardinality(running) < max_concurrency

\* faulty variant of ResponseFor: every task reads one shared loop variable, so
\* each request is about the last item
ResponseForLastItem(i) == modelResponse[NumItems]

\* the completion delivered to item i's request is the one for that request
ResponseFor(i) == modelResponse[i]

AllDone == phase = "eval" /\ \A i \in Items : status[i] = "done"

---------------------------------------------------------------------------
(* The notebook run: single calls of the judge (the sanity checks printed  *)
(* under each judge's cell), then Eval over hallucinations.                *)

CallIdle ==
    /\ pc = "idle"
    /\ content = NotRendered
    /\ request = NoRequest
    /\ requests = 0
    /\ attempts = 0
    /\ response = NoResponse
    /\ result = NoOutcome

EvalIdle ==
    /\ modelResponse = [i \in Items |-> NoResponse]
    /\ status = [i \in Items |-> "pending"]
    /\ output = [i \in Items |-> NoOutcome]
    /\ scores = [i \in Items |-> NoOutcome]
    /\ order = <<>>

MetricIdle ==
    /\ nd_output = PyInt(0)
    /\ nd_expected = PyInt(0)
    /\ nd_result = NoOutcome

\* the generation cell not yet run
NoRun == [ran |-> FALSE, seed |-> 0, hallucinations |-> Unbound]

SeedIdle ==
    /\ seed = 0
    /\ genA = NoRun
    /\ genB = NoRun

\* get_image_paths not called
NoLookup == [called |-> FALSE, number |-> PyNone, result |-> <<>>, first |-> NoOutcome]

\* find_entry not called: no element
NoElement == [t |-> "unbound", entry |-> <<>>]

\* the selection cell not run
NoSelection == [similar_path |-> NoOutcome, element |-> NoElement, prompt |-> NoOutcome]

ImageIdle ==
    /\ listdir = <<>>
    /\ lookup = NoLookup
    /\ image_cell = "idle"
    /\ image_paths = <<>>
    /\ index = <<>>
    /\ retrieved = <<>>
    /\ indices_distances = <<>>
    /\ displayed = <<>>
    /\ json_data = <<>>
    /\ selection = NoSelection

\* no judge defined, no invocation made
NoBindings ==
    [numeric_rater |-> "unbound", classifier |-> "unbound", task |-> "unbound"]
NoCall ==
    [fn |-> "", kw |-> NoKwargs, response |-> NoResponse, content |-> NotRendered,
     tools |-> <<>>, result |-> NoOutcome]
NoEvalRun ==
    [experiment_name |-> "", judge |-> "", tools |-> <<>>, content |-> NotRendered,
     response |-> NoResponse, result |-> NoOutcome]

CellsIdle ==
    /\ bindings = NoBindings
    /\ prompt_cell = ""
    /\ doc_pos = 0
    /\ eval_run = NoEvalRun
    /\ callA = NoCall
    /\ callB = NoCall

DataIdle ==
    /\ cell = "idle"
    /\ full_result = <<>>
    /\ qa_pairs = <<>>
    /\ ha_status = <<>>
    /\ ha_content = <<>>
    /\ ha_order = <<>>
    /\ hallucinated_answers = NoAnswers
    /\ hallucinations = Unbound
    /\ yielded = <<>>

FormatIdle ==
    /\ kwargsA = NoKwargs
    /\ kwargsB = NoKwargs
    /\ contentA = NotRendered
    /\ contentB = NotRendered
    /\ sentA = FALSE

\* the binding of PROMPT when the experiment's cell runs, the cells run in order
PromptOf(exp) == IF exp = "Classifier" THEN PROMPT_choice ELSE PROMPT_rate

Init ==
    /\ experiment \in Experiments
    /\ phase = "sanity"
    /\ CallIdle
    /\ EvalIdle
    /\ MetricIdle
    /\ PROMPT = PromptOf(experiment)
    /\ FormatIdle
    /\ DataIdle
    /\ CellsIdle
    /\ SeedIdle
    /\ ImageIdle

\* the arguments of the calls printed under the judge's cell: qa_pairs[10],
\* whose generated answer is the expected one, and hallucinations[10]
SanityKwargs ==
    {[input |-> <<"q">>, output |-> <<"e">>, expected |-> <<"e">>],
     [input |-> <<"q">>, output |-> <<"h">>, expected |-> <<"e">>]}

\* the JSON schema of a property of a tool's parameters
IntegerSchema(lo, hi) ==
    [type |-> "integer", bounded |-> TRUE, minimum |-> lo, maximum |-> hi, enum |-> {}]
StringSchema(enum) ==
    [type |-> "string", bounded |-> FALSE, minimum |-> 0, maximum |-> 0, enum |-> enum]

\* {"type": "function", "function": {"name": ..., "parameters": {...}}}
Tool(name, properties, required) ==
    [name |-> name, properties |-> properties, required |-> required]

\* faulty variant of ToolsOf: the verdict field is not listed under "required"
ToolsOfOptionalVerdict(exp) ==
    IF exp = "Classifier"
    THEN <<Tool("rate", [reasons |-> StringSchema({}),
                         choice |-> StringSchema({"A", "B", "C", "D", "E"})],
                {"reasons"})>>
    ELSE IF exp = "Numeric rater with reasoning"
    THEN <<Tool("rate", [reasons |-> StringSchema({}),
                         rating |-> IntegerSchema(RatingMin, RatingMax)], {})>>
    ELSE <<Tool("rate", [rating |-> IntegerSchema(RatingMin, RatingMax)], {})>>

\* tools=[...] of the judge the experiment's task calls
ToolsOf(exp) ==
    IF exp = "Classifier"
    THEN <<Tool("rate", [reasons |-> StringSchema({}),
                         choice |-> StringSchema({"A", "B", "C", "D", "E"})],
                {"reasons", "choice"})>>
    ELSE IF exp = "Numeric rater with reasoning"
    THEN <<Tool("rate", [reasons |-> StringSchema({}),
                         rating |-> IntegerSchema(RatingMin, RatingMax)], {"rating"})>>
    ELSE <<Tool("rate", [rating |-> IntegerSchema(RatingMin, RatingMax)], {"rating"})>>

\* faulty variant of CreateArgs: the request is built with no content
CreateArgsBlank(c) ==
    [content |-> <<>>, temperature |-> 0, tools |-> ToolsOf(experiment),
     tool_choice |-> "rate"]

\* create(model=..., messages=[{"role": "user", "content": ...}], temperature=0,
\*        tools=[...], tool_choice={"type": "function", "function": {"name": "rate"}})
CreateArgs(c) ==
    [content |-> c.text, temperature |-> 0, tools |-> ToolsOf(experiment),
     tool_choice |-> "rate"]

\* faulty variant of AfterResponse: a response the judge cannot score is
\* followed by another request
AfterResponseReask(outcome) ==
    IF outcome.kind = "return" THEN "returned" ELSE "rendered"

\* after the await the judge runs to its return, or the exception propagates
AfterResponse(outcome) ==
    IF outcome.kind = "return" THEN "returned" ELSE "raised"

\* faulty variant of RetryAllowed: the client sends again without a limit
RetryAlways(n) == TRUE

\* the client sends a failed request again while it has retries left
RetryAllowed(n) == n < 1 + max_retries

\* await numeric_rater(...) / await classifier(...): the arguments of create()
\* are evaluated, PROMPT.format(...) among them
CallJudge ==
    /\ phase = "sanity"
    /\ pc = "idle"
    /\ \E kw \in SanityKwargs :
        /\ content' = format(PROMPT, kw)
        /\ pc' = IF format(PROMPT, kw).kind = "return" THEN "rendered" ELSE "raised"
        /\ result' = IF format(PROMPT, kw).kind = "return" THEN NoOutcome
                     ELSE Raise(format(PROMPT, kw).exc)
    /\ UNCHANGED <<experiment, phase, request, requests, attempts, response,
                   evalVars, metricVars, PROMPT, auxVars>>

\* create() is called: the request is sent
SendRequest ==
    /\ phase = "sanity"
    /\ pc = "rendered"
    /\ pc' = "awaiting"
    /\ request' = CreateArgs(content)
    /\ requests' = requests + 1
    /\ attempts' = 1
    /\ UNCHANGED <<experiment, phase, content, response, result, evalVars,
                   metricVars, PROMPT, auxVars>>

\* the transport fails and the client sends the same request again
RetryRequest ==
    /\ phase = "sanity"
    /\ pc = "awaiting"
    /\ RetryAllowed(attempts)
    /\ attempts <= 1 + max_retries
    /\ attempts' = attempts + 1
    /\ UNCHANGED <<experiment, phase, pc, content, request, requests, response,
                   result, evalVars, metricVars, PROMPT, auxVars>>

\* the completion arrives, or the client gives up on the transport; the judge
\* runs to its end
JudgeResponse ==
    /\ phase = "sanity"
    /\ pc = "awaiting"
    /\ \E resp \in Responses :
        /\ resp.transport = "ok" \/ ~RetryAllowed(attempts)
        /\ response' = resp
        /\ result' = task(experiment, resp)
        /\ pc' = AfterResponse(task(experiment, resp))
    /\ UNCHANGED <<experiment, phase, content, request, requests, attempts,
                   evalVars, metricVars, PROMPT, auxVars>>

\* print(...) of the returned score, or the traceback: nothing is kept
PrintResult ==
    /\ phase = "sanity"
    /\ pc \in {"returned", "raised"}
    /\ pc' = "idle"
    /\ content' = NotRendered
    /\ request' = NoRequest
    /\ requests' = 0
    /\ attempts' = 0
    /\ response' = NoResponse
    /\ result' = NoOutcome
    /\ UNCHANGED <<experiment, phase, evalVars, metricVars, PROMPT, auxVars>>

\* await Eval(..., data=data, task=task, scores=[normalized_diff], max_concurrency=...)
StartEval ==
    /\ phase = "sanity"
    /\ pc = "idle"
    /\ phase' = "eval"
    /\ modelResponse' \in [Items -> EvalResponses(experiment)]
    /\ UNCHANGED <<experiment, callVars, status, output, scores, order, metricVars, PROMPT, auxVars>>

\* the harness admits item i: task(input) runs up to its await, request in flight
StartTask(i) ==
    /\ phase = "eval"
    /\ status[i] = "pending"
    /\ AdmissionOpen(Running)
    /\ status' = [status EXCEPT ![i] = "running"]
    /\ UNCHANGED <<experiment, phase, callVars, modelResponse, output, scores, order,
                   metricVars, PROMPT, auxVars>>

\* item i's completion arrives: task returns or raises, the harness scores the
\* output and records the result
CompleteTask(i) ==
    /\ phase = "eval"
    /\ status[i] = "running"
    /\ \E out \in {task(experiment, ResponseFor(i))} :
        /\ output' = [output EXCEPT ![i] = out]
        /\ scores' = [scores EXCEPT ![i] = Score(i, out)]
    /\ status' = [status EXCEPT ![i] = "done"]
    /\ order' = Append(order, i)
    /\ UNCHANGED <<experiment, phase, callVars, modelResponse, metricVars, PROMPT, auxVars>>

Next ==
    \/ CallJudge
    \/ SendRequest
    \/ RetryRequest
    \/ JudgeResponse
    \/ PrintResult
    \/ StartEval
    \/ \E i \in Items : StartTask(i)
    \/ \E i \in Items : CompleteTask(i)

Spec == Init /\ [][Next]_vars

\* The event loop keeps admitting tasks while the harness has a free slot, and
\* the client's request timeout ends requests with a completion or an error.
FairSpec ==
    /\ Spec
    /\ WF_vars(\E i \in Items : StartTask(i))
    /\ WF_vars(\E i \in Items : CompleteTask(i))

---------------------------------------------------------------------------
(* normalized_diff on its own: inputs drawn from a grid of [0, 1].         *)

Grid == {PyNum(Frac(k, GridDen)) : k \in 0..GridDen}

InitMetric ==
    /\ experiment = "Numeric rater"
    /\ phase = "metric"
    /\ CallIdle
    /\ EvalIdle
    /\ nd_output \in Grid
    /\ nd_expected \in Grid
    /\ nd_result = NoOutcome
    /\ PROMPT = PROMPT_rate
    /\ FormatIdle
    /\ DataIdle
    /\ CellsIdle
    /\ SeedIdle
    /\ ImageIdle

ApplyNormalizedDiff ==
    /\ phase = "metric"
    /\ nd_result = NoOutcome
    /\ nd_result' = normalized_diff(nd_output, nd_expected)
    /\ UNCHANGED <<experiment, phase, callVars, evalVars, nd_output, nd_expected,
                   PROMPT, auxVars>>

NextMetric == ApplyNormalizedDiff

SpecMetric == InitMetric /\ [][NextMetric]_vars

---------------------------------------------------------------------------
(* PROMPT.format on its own: the template and the arguments of two calls   *)
(* drawn from bounded sets; the first call goes on to send its request.    *)

InitFormat ==
    /\ experiment = "Numeric rater"
    /\ phase = "format"
    /\ CallIdle
    /\ EvalIdle
    /\ MetricIdle
    /\ PROMPT \in Templates
    /\ kwargsA \in Kwargs
    /\ kwargsB \in (IF PROMPT = PROMPT_rate THEN Kwargs ELSE {kwargsA})
    /\ contentA = NotRendered
    /\ contentB = NotRendered
    /\ sentA = FALSE
    /\ DataIdle
    /\ CellsIdle
    /\ SeedIdle
    /\ ImageIdle

\* PROMPT.format(input=input, output=output, expected=expected), first call
FormatA ==
    /\ phase = "format"
    /\ contentA = NotRendered
    /\ contentA' = format(PROMPT, kwargsA)
    /\ UNCHANGED <<experiment, phase, callVars, evalVars, metricVars, PROMPT,
                   kwargsA, kwargsB, contentB, sentA, dataVars, cellVars, seedVars, imageVars>>

\* the same expression in another call
FormatB ==
    /\ phase = "format"
    /\ contentA # NotRendered
    /\ contentB = NotRendered
    /\ contentB' = format(PROMPT, kwargsB)
    /\ UNCHANGED <<experiment, phase, callVars, evalVars, metricVars, PROMPT,
                   kwargsA, kwargsB, contentA, sentA, dataVars, cellVars, seedVars, imageVars>>

\* client.chat.completions.create(messages=[{"role": "user", "content": ...}])
\* is called once its argument has been evaluated
SendA ==
    /\ phase = "format"
    /\ contentA.kind = "return"
    /\ contentB # NotRendered
    /\ ~sentA
    /\ sentA' = TRUE
    /\ UNCHANGED <<experiment, phase, callVars, evalVars, metricVars, PROMPT,
                   kwargsA, kwargsB, contentA, contentB, dataVars, cellVars, seedVars, imageVars>>

NextFormat == FormatA \/ FormatB \/ SendA

SpecFormat == InitFormat /\ [][NextFormat]_vars

---------------------------------------------------------------------------
(* The data cells: the dataset is flattened into qa_pairs, an answer is    *)
(* hallucinated for every element concurrently, and the yes/no answers are *)
(* filtered out.                                                           *)

otherVars ==
    <<experiment, phase, callVars, evalVars, metricVars, PROMPT, formatVars, cellVars,
      seedVars, imageVars>>

OtherIdle ==
    /\ experiment = "Numeric rater"
    /\ phase = "data"
    /\ CallIdle
    /\ EvalIdle
    /\ MetricIdle
    /\ PROMPT = PROMPT_rate
    /\ FormatIdle
    /\ CellsIdle
    /\ SeedIdle
    /\ ImageIdle

\* the flattening on its own: the rows drawn from a bounded set
InitFlatten ==
    /\ OtherIdle
    /\ cell = "load"
    /\ full_result \in Datasets
    /\ qa_pairs = <<>>
    /\ ha_status = <<>>
    /\ ha_content = <<>>
    /\ ha_order = <<>>
    /\ hallucinated_answers = NoAnswers
    /\ hallucinations = Unbound
    /\ yielded = <<>>

\* qa_pairs = [QuestionAnswer(...) for r in full_result for ... in enumerate(r[2])]
FlattenCell ==
    /\ cell = "load"
    /\ qa_pairs' = Flatten(full_result)
    /\ cell' = "flattened"
    /\ UNCHANGED <<otherVars, full_result, ha_status, ha_content, ha_order,
                   hallucinated_answers, hallucinations, yielded>>

NextFlatten == FlattenCell

SpecFlatten == InitFlatten /\ [][NextFlatten]_vars

InitGather ==
    /\ OtherIdle
    /\ cell = "load"
    /\ full_result = GatherRows
    /\ qa_pairs = <<>>
    /\ ha_status = <<>>
    /\ ha_content = <<>>
    /\ ha_order = <<>>
    /\ hallucinated_answers = NoAnswers
    /\ hallucinations = Unbound
    /\ yielded = <<>>

\* asyncio.gather(*[hallucinate_answer(qa) for qa in qa_pairs]): a task per
\* element, each running up to its await
StartGather ==
    /\ cell = "flattened"
    /\ cell' = "gathering"
    /\ ha_status' = [k \in 1..Len(qa_pairs) |-> "awaiting"]
    /\ ha_content' = [k \in 1..Len(qa_pairs) |-> NoneContent]
    /\ UNCHANGED <<otherVars, full_result, qa_pairs, ha_order, hallucinated_answers,
                   hallucinations, yielded>>

\* the request of task k ends: hallucinate_answer returns the message content,
\* or the client's exception propagates. gather raises the first exception to
\* the cell at once, the other tasks keep running; when the last task returns
\* gather returns the list of results in the order of its arguments.
AnswerArrives(k) ==
    /\ cell \in {"gathering", "aborted"}
    /\ k \in DOMAIN ha_status
    /\ ha_status[k] = "awaiting"
    /\ ha_order' = Append(ha_order, k)
    /\ \E out \in Contents \cup {RequestFailed} :
        IF out = RequestFailed
        THEN /\ ha_status' = [ha_status EXCEPT ![k] = "raised"]
             /\ cell' = "aborted"
             /\ UNCHANGED <<ha_content, hallucinated_answers>>
        ELSE /\ ha_status' = [ha_status EXCEPT ![k] = "returned"]
             /\ ha_content' = [ha_content EXCEPT ![k] = out]
             /\ IF cell = "gathering"
                    /\ \A j \in DOMAIN ha_status : j # k => ha_status[j] = "returned"
                THEN /\ cell' = "gathered"
                     /\ hallucinated_answers' =
                            Answers(GatherResult([ha_content EXCEPT ![k] = out],
                                                 Append(ha_order, k)))
                ELSE UNCHANGED <<cell, hallucinated_answers>>
    /\ UNCHANGED <<otherVars, full_result, qa_pairs, hallucinations, yielded>>

\* hallucinations = [QuestionAnswer(...) for (qa, hallucination) in zip(...) if ...]
FilterCell ==
    /\ cell = "gathered"
    /\ hallucinations' = BuildHallucinations(qa_pairs, hallucinated_answers.list)
    /\ cell' = IF BuildHallucinations(qa_pairs, hallucinated_answers.list).kind = "return"
               THEN "filtered" ELSE "aborted"
    /\ UNCHANGED <<otherVars, full_result, qa_pairs, ha_status, ha_content, ha_order,
                   hallucinated_answers, yielded>>

\* the harness iterates data(): the generator runs over hallucinations
DataCell ==
    /\ cell = "filtered"
    /\ yielded' = data_of(hallucinations.list)
    /\ cell' = "data"
    /\ UNCHANGED <<otherVars, full_result, qa_pairs, ha_status, ha_content, ha_order,
                   hallucinated_answers, hallucinations>>

NextGather ==
    \/ FlattenCell
    \/ StartGather
    \/ \E k \in 1..NumPairs : AnswerArrives(k)
    \/ FilterCell
    \/ DataCell

SpecGather == InitGather /\ [][NextGather]_vars

---------------------------------------------------------------------------
(* The judge cells run in any order, with invocations of the judges in     *)
(* between. A judge reads the global PROMPT when it is called.             *)

JudgeNames == {"numeric_rater", "classifier"}

\* the completions the endpoint may give to an invocation
CellResponses ==
    {OneCall([rating |-> JInt(RatingMax)]),
     OneCall([reasons |-> Reasons, choice |-> JStr("A")]),
     OkResponse(<<>>)}

\* the function the name is bound to, applied to the response
Judge(fn, resp) ==
    IF fn = "classifier" THEN classifier(resp)
    ELSE IF bindings.numeric_rater = "reasoning" THEN numeric_rater_with_reasoning(resp)
    ELSE numeric_rater(resp)

\* the definition a judge's name is bound to: "plain" (line 343), "reasoning"
\* (line 538), "classifier" (line 750), or "unbound"
Definition(b, fn) == IF fn = "classifier" THEN b.classifier ELSE b.numeric_rater

\* tools=[...] in the body of a definition
ToolsOfDefinition(d) ==
    ToolsOf(IF d = "bound" THEN "Classifier"
            ELSE IF d = "reasoning" THEN "Numeric rater with reasoning"
            ELSE "Numeric rater")

\* faulty variant of Invocation: the judge renders the template of its own cell
InvocationOwnTemplate(fn, kw, resp) ==
    [fn |-> fn, kw |-> kw, response |-> resp,
     content |-> format(IF fn = "classifier" THEN PROMPT_choice ELSE PROMPT_rate, kw),
     tools |-> ToolsOfDefinition(Definition(bindings, fn)),
     result |-> Judge(fn, resp)]

\* fn(input, output, expected): the content is PROMPT.format(...) with the
\* binding PROMPT has at the time of the call
Invocation(fn, kw, resp) ==
    [fn |-> fn, kw |-> kw, response |-> resp, content |-> format(PROMPT, kw),
     tools |-> ToolsOfDefinition(Definition(bindings, fn)),
     result |-> Judge(fn, resp)]

InitCells ==
    /\ experiment = "Numeric rater"
    /\ phase = "cells"
    /\ CallIdle
    /\ EvalIdle
    /\ MetricIdle
    /\ PROMPT = <<>>
    /\ FormatIdle
    /\ DataIdle
    /\ CellsIdle
    /\ SeedIdle
    /\ ImageIdle

\* the n-th judge cell of the document can run: any cell when the cells are
\* run in any order, the next one when they are run in document order
CanRun(n) == phase = "cells" \/ (phase = "document" /\ doc_pos = n - 1)

Advance(n) == IF phase = "document" THEN n ELSE doc_pos

\* the cell of lines 325-372: PROMPT = ..., def numeric_rater
RunRaterCell ==
    /\ CanRun(1)
    /\ PROMPT' = PROMPT_rate
    /\ prompt_cell' = "rater"
    /\ bindings' = [bindings EXCEPT !.numeric_rater = "plain"]
    /\ doc_pos' = Advance(1)
    /\ UNCHANGED <<experiment, phase, callVars, evalVars, metricVars, formatVars,
                   dataVars, eval_run, callA, callB, seedVars, imageVars>>

\* the cell of lines 537-572: def numeric_rater, with reasons in the tool
RunReasoningCell ==
    /\ CanRun(3)
    /\ bindings' = [bindings EXCEPT !.numeric_rater = "reasoning"]
    /\ doc_pos' = Advance(3)
    /\ UNCHANGED <<experiment, phase, callVars, evalVars, metricVars, PROMPT,
                   formatVars, dataVars, prompt_cell, eval_run, callA, callB, seedVars, imageVars>>

\* the cell of lines 715-789: PROMPT = ..., CHOICE_SCORES = ..., def classifier
RunClassifierCell ==
    /\ CanRun(5)
    /\ PROMPT' = PROMPT_choice
    /\ prompt_cell' = "classifier"
    /\ bindings' = [bindings EXCEPT !.classifier = "bound"]
    /\ doc_pos' = Advance(5)
    /\ UNCHANGED <<experiment, phase, callVars, evalVars, metricVars, formatVars,
                   dataVars, eval_run, callA, callB, seedVars, imageVars>>

\* await fn(input, output, expected), for a name that is bound
InvokeA(fn) ==
    /\ phase = "cells"
    /\ bindings[fn] # "unbound"
    /\ callA = NoCall
    /\ \E kw \in SanityKwargs : \E resp \in CellResponses :
        callA' = Invocation(fn, kw, resp)
    /\ UNCHANGED <<experiment, phase, callVars, evalVars, metricVars, PROMPT,
                   formatVars, dataVars, bindings, prompt_cell, doc_pos, eval_run,
                   callB, seedVars, imageVars>>

\* a later invocation
InvokeB(fn) ==
    /\ phase = "cells"
    /\ bindings[fn] # "unbound"
    /\ callA # NoCall
    /\ callB = NoCall
    /\ \E kw \in SanityKwargs : \E resp \in CellResponses :
        callB' = Invocation(fn, kw, resp)
    /\ UNCHANGED <<experiment, phase, callVars, evalVars, metricVars, PROMPT,
                   formatVars, dataVars, bindings, prompt_cell, doc_pos, eval_run,
                   callA, seedVars, imageVars>>

NextCells ==
    \/ RunRaterCell
    \/ RunReasoningCell
    \/ RunClassifierCell
    \/ \E fn \in JudgeNames : InvokeA(fn)
    \/ \E fn \in JudgeNames : InvokeB(fn)

SpecCells == InitCells /\ [][NextCells]_vars

---------------------------------------------------------------------------
(* The judge cells run once, in document order: each Eval cell runs task   *)
(* on the items, of which one is followed.                                 *)

\* the completions the endpoint may give to the item's request
DocumentResponses ==
    {OneCall([rating |-> JInt(n)]) : n \in RatingMin..RatingMax}
        \cup {OneCall([reasons |-> Reasons, choice |-> JStr(c)]) :
                    c \in {"A", "B", "C", "D", "E"}}
        \cup {OkResponse(<<>>)}

\* faulty variant of ResolveTask: task keeps the numeric_rater that was bound
\* when task was defined
ResolveTaskAtDefinition(b) ==
    IF b.task = "classifier" THEN b.classifier ELSE "plain"

\* task(input) looks up the judge's name when it is called
ResolveTask(b) ==
    IF b.task = "classifier" THEN b.classifier ELSE b.numeric_rater

\* the body of a definition, applied to the response
DefinitionResult(d, resp) ==
    IF d = "bound" THEN classifier(resp)
    ELSE IF d = "reasoning" THEN numeric_rater_with_reasoning(resp)
    ELSE numeric_rater(resp)

\* Eval(..., task=task, experiment_name=name): task on one item
EvalRun(name, b, kw, resp) ==
    [experiment_name |-> name, judge |-> ResolveTask(b),
     tools |-> ToolsOfDefinition(ResolveTask(b)), content |-> format(PROMPT, kw),
     response |-> resp, result |-> DefinitionResult(ResolveTask(b), resp)]

InitDocument ==
    /\ experiment = "Numeric rater"
    /\ phase = "document"
    /\ CallIdle
    /\ EvalIdle
    /\ MetricIdle
    /\ PROMPT = <<>>
    /\ FormatIdle
    /\ DataIdle
    /\ CellsIdle
    /\ SeedIdle
    /\ ImageIdle

\* the cell of lines 468-494: def data, def task (calling numeric_rater),
\* def normalized_diff, Eval(..., experiment_name="Numeric rater")
RunTaskCell ==
    /\ phase = "document"
    /\ doc_pos = 1
    /\ bindings' = [bindings EXCEPT !.task = "numeric_rater"]
    /\ \E kw \in SanityKwargs : \E resp \in DocumentResponses :
        eval_run' = EvalRun("Numeric rater",
                            [bindings EXCEPT !.task = "numeric_rater"], kw, resp)
    /\ doc_pos' = 2
    /\ UNCHANGED <<experiment, phase, callVars, evalVars, metricVars, PROMPT,
                   formatVars, dataVars, prompt_cell, callA, callB, seedVars, imageVars>>

\* the cell of lines 656-663: Eval(..., experiment_name="Numeric rater with reasoning")
RunReasoningEvalCell ==
    /\ phase = "document"
    /\ doc_pos = 3
    /\ \E kw \in SanityKwargs : \E resp \in DocumentResponses :
        eval_run' = EvalRun("Numeric rater with reasoning", bindings, kw, resp)
    /\ doc_pos' = 4
    /\ UNCHANGED <<experiment, phase, callVars, evalVars, metricVars, PROMPT,
                   formatVars, dataVars, bindings, prompt_cell, callA, callB, seedVars, imageVars>>

\* the cell of lines 873-888: def task (calling classifier),
\* Eval(..., experiment_name="Classifier")
RunClassifierEvalCell ==
    /\ phase = "document"
    /\ doc_pos = 5
    /\ bindings' = [bindings EXCEPT !.task = "classifier"]
    /\ \E kw \in SanityKwargs : \E resp \in DocumentResponses :
        eval_run' = EvalRun("Classifier",
                            [bindings EXCEPT !.task = "classifier"], kw, resp)
    /\ doc_pos' = 6
    /\ UNCHANGED <<experiment, phase, callVars, evalVars, metricVars, PROMPT,
                   formatVars, dataVars, prompt_cell, callA, callB, seedVars, imageVars>>

NextDocument ==
    \/ RunRaterCell
    \/ RunTaskCell
    \/ RunReasoningCell
    \/ RunReasoningEvalCell
    \/ RunClassifierCell
    \/ RunClassifierEvalCell

SpecDocument == InitDocument /\ [][NextDocument]_vars

---------------------------------------------------------------------------
(* Vocabulary of the properties: what a response carries, and the declared *)
(* domains of the tool schemas.                                            *)

CallDone == pc \in {"returned", "raised"}

VerdictField(exp) == IF exp = "Classifier" THEN "choice" ELSE "rating"

\* the fields the experiment's tool schema lists under "required"
RequiredFields(exp) == IF exp = "Classifier" THEN {"reasons", "choice"} ELSE {"rating"}

\* the response's first tool call parses to an object that has the field
Carries(resp, fld) ==
    /\ resp.transport = "ok"
    /\ resp.tool_calls # <<>>
    /\ resp.tool_calls[1].wellformed
    /\ fld \in DOMAIN resp.tool_calls[1].object

Verdict(resp, fld) == resp.tool_calls[1].object[fld]

RatingInDomain(v) == v.t = "int" /\ v.n >= RatingMin /\ v.n <= RatingMax

ChoiceInDomain(v) == v.t = "str" /\ v.s \in {"A", "B", "C", "D", "E"}

VerdictInDomain(exp, v) ==
    IF exp = "Classifier" THEN ChoiceInDomain(v) ELSE RatingInDomain(v)

InUnitRange(v) ==
    /\ v.t = "num"
    /\ RatLe(Frac(0, 1), Rat(v))
    /\ RatLe(Rat(v), Frac(1, 1))

---------------------------------------------------------------------------
(* C1..C10                                                                 *)

\* C1: a judge call whose response carries a verdict outside the declared
\* domain (a rating that is not an integer in 1..10, a choice that is not one
\* of A..E) fails; it returns no score, clamped value or placeholder.
C1_OutOfDomainFails ==
    (/\ CallDone
     /\ Carries(response, VerdictField(experiment))
     /\ ~VerdictInDomain(experiment, Verdict(response, VerdictField(experiment))))
        => result.kind = "raise"

\* C2: for every rating r in 1..10 both numeric_rater variants return exactly
\* (r - 1) / 9, so r = 1 gives 0 and r = 10 gives 1, and of two items of a run
\* the one with the higher rating gets the strictly higher score.
C2_RatingMapsLinearly ==
    /\ (/\ CallDone
        /\ experiment # "Classifier"
        /\ Carries(response, "rating")
        /\ RatingInDomain(Verdict(response, "rating")))
            => LET r == Verdict(response, "rating").n
                   v == result.value
               IN  /\ result.kind = "return"
                   /\ v.t = "num"
                   /\ 9 * v.num = (r - 1) * v.den
                   /\ (r = 1 => v = PyInt(0))
                   /\ (r = 10 => v = PyInt(1))
    /\ \A i, j \in Items :
        (/\ phase = "eval"
         /\ experiment # "Classifier"
         /\ status[i] = "done" /\ status[j] = "done"
         /\ Carries(modelResponse[i], "rating") /\ Carries(modelResponse[j], "rating")
         /\ RatingInDomain(Verdict(modelResponse[i], "rating"))
         /\ RatingInDomain(Verdict(modelResponse[j], "rating"))
         /\ Verdict(modelResponse[i], "rating").n < Verdict(modelResponse[j], "rating").n)
            => /\ output[i].kind = "return" /\ output[j].kind = "return"
               /\ RatLt(Rat(output[i].value), Rat(output[j].value))

C2_Witness ==
    /\ pc = "returned"
    /\ experiment = "Numeric rater with reasoning"
    /\ Carries(response, "rating")
    /\ Verdict(response, "rating") = JInt(10)
    /\ result = Return(PyInt(1))

\* C3: for every symbol of the alphabet {A, B, C, D, E} CHOICE_SCORES has an
\* entry and classifier returns it: A 0.5, B 0, C 1, D 0, E 1.
C3_ChoiceTable ==
    (/\ CallDone
     /\ experiment = "Classifier"
     /\ Carries(response, "choice")
     /\ ChoiceInDomain(Verdict(response, "choice")))
        => LET c == Verdict(response, "choice").s IN
            /\ c \in DOMAIN CHOICE_SCORES
            /\ result.kind = "return"
            /\ result.value.t = "num"
            /\ (c = "A" => 2 * result.value.num = result.value.den)
            /\ (c \in {"B", "D"} => result.value.num = 0)
            /\ (c \in {"C", "E"} => result.value.num = result.value.den)

C3_Witness ==
    /\ pc = "returned"
    /\ experiment = "Classifier"
    /\ Carries(response, "choice")
    /\ Verdict(response, "choice") = JStr("B")
    /\ result = Return(PyInt(0))

\* C4: when the response's choice has no entry in CHOICE_SCORES the classifier
\* raises; it returns no default or null score.
C4_UnmappedChoiceRaises ==
    (/\ CallDone
     /\ experiment = "Classifier"
     /\ Carries(response, "choice")
     /\ ~(/\ Verdict(response, "choice").t = "str"
          /\ Verdict(response, "choice").s \in DOMAIN CHOICE_SCORES))
        => result.kind = "raise"

\* C5: a response with zero tool calls, with more than one, or whose arguments
\* are not an object with the schema's required fields, makes the call fail;
\* several tool calls are not accepted by using the first.
C5_MalformedToolCallsRejected ==
    (/\ CallDone
     /\ response.transport = "ok"
     /\ \/ Len(response.tool_calls) # 1
        \/ ~response.tool_calls[1].wellformed
        \/ ~(RequiredFields(experiment) \subseteq DOMAIN response.tool_calls[1].object))
        => result.kind = "raise"

\* C6: every value task returns as a judge score, in a single call or in an
\* evaluation run, is a number in [0, 1].
C6_ScoreInUnitRange ==
    /\ pc = "returned" => InUnitRange(result.value)
    /\ \A i \in Items : output[i].kind = "return" => InUnitRange(output[i].value)

\* C7: for score and expected in [0, 1] normalized_diff returns
\* 1 - |score - expected|, which lies in [0, 1], is 1 exactly when the two are
\* equal, and is 1 - score when expected is 0.
C7_NormalizedDiff ==
    nd_result # NoOutcome =>
        LET a == nd_output.num
            b == nd_output.den
            c == nd_expected.num
            d == nd_expected.den
            v == nd_result.value
        IN  /\ nd_result.kind = "return"
            /\ v.t = "num"
            /\ v.num * (b * d) = v.den * (b * d - Abs(a * d - c * b))
            /\ InUnitRange(v)
            /\ (v = PyInt(1) <=> nd_output = nd_expected)
            /\ (nd_expected = PyInt(0) => v.num * b = v.den * (b - a))

C7_Witness ==
    /\ nd_output = PyNum(Frac(1, 2))
    /\ nd_expected = PyInt(1)
    /\ nd_result = Return(PyNum(Frac(1, 2)))

\* C8: normalized_diff never raises on what task hands to it: for every item
\* whose task returned, scoring the output against expected = 0 gives a number.
C8_NormalizedDiffNeverRaises ==
    \A i \in Items :
        (status[i] = "done" /\ output[i].kind = "return")
            => (scores[i].kind = "return" /\ scores[i].value.t = "num")

\* C9: at no instant of an evaluation run are more than max_concurrency judge
\* requests in flight.
C9_ConcurrencyBounded == Cardinality(Running) <= max_concurrency

C9_Witness ==
    /\ max_concurrency < NumItems
    /\ Cardinality(Running) = max_concurrency
    /\ \E i \in Items : status[i] = "pending"

\* the (item, output, score) results of running the items one after another
RECURSIVE SequentialResults(_)
SequentialResults(n) ==
    IF n = 0 THEN {}
    ELSE LET out == task(experiment, modelResponse[n]) IN
        SequentialResults(n - 1) \cup {<<n, out, Score(n, out)>>}

Results == {<<i, output[i], scores[i]>> : i \in {j \in Items : status[j] = "done"}}

\* C10: under any interleaving of completions an evaluation run eventually
\* completes all items, and its set of results is the one the sequential run of
\* the same invocations gives.
C10_CompletesLikeSequential ==
    (phase = "eval") ~> (AllDone /\ Results = SequentialResults(NumItems))

C10_Witness ==
    /\ AllDone
    /\ max_concurrency < NumItems
    /\ order[1] # 1
    /\ \E i, j \in Items : output[i] # output[j]
    /\ Results = SequentialResults(NumItems)

---------------------------------------------------------------------------
(* The generation cell run twice from the same qa_pairs: random.seed(42),  *)
(* then an answer from the endpoint for every element, then the filter.    *)

\* random.seed(42)
SeedValue == 42

\* the answers the endpoint may sample at temperature 1
SampledAnswers ==
    {Str(<<"R", "o", "m", "e">>), Str(<<"P", "i", "s", "a">>), Str(<<"N", "o">>)}

\* the lists of answers the requests of a run may return: the request carries
\* the question, temperature=1 and max_tokens=100, and nothing of random's state
Sampled(sd, pairs) == [DOMAIN pairs -> SampledAnswers]

InitSeed ==
    /\ experiment = "Numeric rater"
    /\ phase = "seed"
    /\ CallIdle
    /\ EvalIdle
    /\ MetricIdle
    /\ PROMPT = PROMPT_rate
    /\ FormatIdle
    /\ cell = "flattened"
    /\ full_result = GatherRows
    /\ qa_pairs = Flatten(GatherRows)
    /\ ha_status = <<>>
    /\ ha_content = <<>>
    /\ ha_order = <<>>
    /\ hallucinated_answers = NoAnswers
    /\ hallucinations = Unbound
    /\ yielded = <<>>
    /\ CellsIdle
    /\ seed = 0
    /\ genA = NoRun
    /\ genB = NoRun
    /\ ImageIdle

\* the generation cell, first run: random.seed(42), gather, filter
GenerateA ==
    /\ phase = "seed"
    /\ ~genA.ran
    /\ seed' = SeedValue
    /\ \E answers \in Sampled(SeedValue, qa_pairs) :
        genA' = [ran |-> TRUE, seed |-> SeedValue,
                 hallucinations |-> BuildHallucinations(qa_pairs, answers)]
    /\ UNCHANGED <<experiment, phase, callVars, evalVars, metricVars, PROMPT,
                   formatVars, dataVars, cellVars, genB, imageVars>>

\* the generation cell run again
GenerateB ==
    /\ phase = "seed"
    /\ genA.ran
    /\ ~genB.ran
    /\ seed' = SeedValue
    /\ \E answers \in Sampled(SeedValue, qa_pairs) :
        genB' = [ran |-> TRUE, seed |-> SeedValue,
                 hallucinations |-> BuildHallucinations(qa_pairs, answers)]
    /\ UNCHANGED <<experiment, phase, callVars, evalVars, metricVars, PROMPT,
                   formatVars, dataVars, cellVars, genA, imageVars>>

NextSeed == GenerateA \/ GenerateB

SpecSeed == InitSeed /\ [][NextSeed]_vars

---------------------------------------------------------------------------
(* C11..C20                                                                *)

AllAnswered ==
    /\ cell \in {"gathered", "aborted", "filtered"}
    /\ \A k \in DOMAIN ha_status : ha_status[k] # "awaiting"

\* the element of hallucinations made from qa_pairs[k] and its answer
Hallucination(k) ==
    QuestionAnswer(qa_pairs[k].passage, qa_pairs[k].question,
                   qa_pairs[k].expected_answer, ha_content[k])

\* C11: the failure of one element's request does not abort the others or
\* discard their results: once every hallucinate_answer task has ended and the
\* cell has run, every element whose task returned an answer the filter keeps
\* is in hallucinations, whatever happened to the other elements (a failed
\* request, a response without content).
C11_FailureIsolated ==
    (AllAnswered /\ cell # "gathered")
        => \A k \in DOMAIN ha_status :
            (/\ ha_status[k] = "returned"
             /\ ha_content[k].t = "str"
             /\ KeepsAnswer(ha_content[k]))
                => /\ hallucinated_answers.bound
                   /\ hallucinations.kind = "return"
                   /\ \E n \in DOMAIN hallucinations.list :
                        hallucinations.list[n] = Hallucination(k)

\* the fabrication is the bare word yes or no, in any case
SimpleYesNo(h) == lower(h.text) \in {<<"y", "e", "s">>, <<"n", "o">>}

\* the indices of the elements whose fabrication is not a simple yes/no answer
KeptIndices == {k \in DOMAIN ha_content : ~SimpleYesNo(ha_content[k])}

\* C16: hallucinations is qa_pairs with generated_answer replaced by the
\* fabrication, without exactly the elements whose fabrication is a simple
\* yes/no answer: every other element (one whose fabrication merely contains
\* "not", "know" or "another") is kept, in order, with passage, question and
\* expected_answer unchanged.
C16_OnlyYesNoDiscarded ==
    cell = "filtered"
        => /\ hallucinations.kind = "return"
           /\ Len(hallucinations.list) = Cardinality(KeptIndices)
           /\ \A k \in KeptIndices :
                hallucinations.list[Cardinality({j \in KeptIndices : j <= k})]
                    = Hallucination(k)

RECURSIVE QuestionsBefore(_, _)
QuestionsBefore(rows, r) ==
    IF r <= 1 THEN 0
    ELSE Len(rows[r - 1].questions) + QuestionsBefore(rows, r - 1)

\* C17: the flattening yields one QuestionAnswer per (record, question index)
\* pair, in dataset order and question order: the i-th question of a record
\* comes with the record's passage and i-th answer, generated_answer equals
\* expected_answer, the number of elements is the total number of questions,
\* and the records are not modified.
C17_FlattenOnePerQuestion ==
    /\ [](cell = "flattened" =>
            /\ Len(qa_pairs) = QuestionsBefore(full_result, Len(full_result) + 1)
            /\ \A r \in DOMAIN full_result : \A i \in DOMAIN full_result[r].questions :
                LET qa == qa_pairs[QuestionsBefore(full_result, r) + i] IN
                    /\ qa.passage = full_result[r].passage
                    /\ qa.question = full_result[r].questions[i]
                    /\ qa.expected_answer = full_result[r].answers[i]
                    /\ qa.generated_answer = qa.expected_answer)
    /\ [][full_result' = full_result]_vars

C17_Witness ==
    /\ cell = "flattened"
    /\ full_result = <<Record("P1", <<"q1", "q2">>, <<"a1", "a2">>),
                       Record("P2", <<"q1">>, <<"a2">>)>>
    /\ Len(qa_pairs) = 3
    /\ qa_pairs[2] = QuestionAnswer("P1", "q2", "a2", "a2")
    /\ qa_pairs[3] = QuestionAnswer("P2", "q1", "a2", "a2")

\* C12: a judge call calls create() exactly once whatever the response is: a
\* malformed or out-of-domain response is not followed by another request,
\* and an item of an evaluation run that is done is never run again.
C12_OneRequestPerCall ==
    /\ [](requests <= 1 /\ (CallDone => requests = 1))
    /\ [][\A i \in Items : status[i] = "done" => status'[i] = "done"]_vars

C12_Witness ==
    /\ pc = "raised"
    /\ response.transport = "ok"
    /\ Len(response.tool_calls) = 1
    /\ ~response.tool_calls[1].wellformed
    /\ requests = 1

\* C13: the stages of a call happen in order: the request is sent with the
\* fully rendered prompt as its content, and an outcome exists only once the
\* response to the request has been received; an item of an evaluation run
\* has no output and no score before its request has completed.
C13_StagesInOrder ==
    /\ requests > 0 => (content.kind = "return" /\ request.content = content.text)
    /\ pc \in {"rendered", "awaiting"} => (result = NoOutcome /\ response = NoResponse)
    /\ pc = "rendered" => requests = 0
    /\ CallDone => (response # NoResponse /\ requests > 0 /\ result # NoOutcome)
    /\ \A i \in Items :
        status[i] # "done" => (output[i] = NoOutcome /\ scores[i] = NoOutcome)

C13_Witness ==
    /\ pc = "returned"
    /\ requests = 1
    /\ content.kind = "return"
    /\ Contains(request.content, <<"q">>)
    /\ Contains(request.content, <<"h">>)
    /\ result.kind = "return"

\* C15: a request whose transport fails is sent again at most max_retries
\* times; when the retries are exhausted the call ends by raising, and in an
\* evaluation run the failure is recorded for that item alone: the item is
\* done with the exception as its output and no score, and the other items'
\* outputs are those of their own responses.
C15_BoundedRetries ==
    /\ [](/\ attempts <= 1 + max_retries
          /\ (CallDone /\ response = TransportError)
                => (attempts = 1 + max_retries /\ result.kind = "raise")
          /\ \A i \in Items :
                (status[i] = "done" /\ modelResponse[i] = TransportError)
                    => /\ output[i].kind = "raise"
                       /\ scores[i] = NoOutcome
                       /\ \A j \in Items : status[j] = "done"
                            => output[j] = task(experiment, modelResponse[j]))
    /\ [][(pc = "awaiting" /\ attempts = 1 + max_retries) => pc' # "awaiting"]_callVars

C15_Witness ==
    /\ pc = "raised"
    /\ response = TransportError
    /\ attempts = 1 + max_retries
    /\ result = Raise("APIError")

C20_NoStateAcrossInvocations ==
    (/\ callA # NoCall
     /\ callB # NoCall
     /\ callA.fn = callB.fn
     /\ callA.kw = callB.kw
     /\ callA.response = callB.response)
        => (callA.content = callB.content /\ callA.result = callB.result)

Placeholders == {"input", "expected", "output"}

Occurrences(tpl, f) == Cardinality({k \in DOMAIN tpl : tpl[k].field = f})

\* the template has each of the three placeholders exactly once
WellFormedTemplate(tpl) == \A f \in Placeholders : Occurrences(tpl, f) = 1

\* C14: when PROMPT does not contain each of {input}, {expected}, {output}
\* exactly once, the call fails before its request is sent: such a template is
\* never rendered and sent.
C14_BadTemplateNeverSent ==
    (phase = "format" /\ ~WellFormedTemplate(PROMPT))
        => (contentA.kind # "return" /\ ~sentA)

\* no symbol of the argument strings is a literal chunk of the template
Clean(tpl, kw) ==
    \A f \in Placeholders : \A k \in DOMAIN kw[f] :
        \A j \in DOMAIN tpl : kw[f][k] # tpl[j].lit

\* C18: rendering the judge template is injective on arguments that contain
\* none of the template's delimiters: two distinct (input, expected, output)
\* triples give distinct prompts; and each of the three values appears
\* verbatim in the prompt.
C18_RenderingInjective ==
    (/\ phase = "format"
     /\ PROMPT \in {PROMPT_rate, PROMPT_choice}
     /\ contentA # NotRendered
     /\ contentB # NotRendered)
        => /\ contentA.kind = "return"
           /\ contentB.kind = "return"
           /\ \A f \in Placeholders : Contains(contentA.text, kwargsA[f])
           /\ (/\ kwargsA # kwargsB
               /\ Clean(PROMPT, kwargsA)
               /\ Clean(PROMPT, kwargsB)) => contentA.text # contentB.text

C18_Witness ==
    /\ phase = "format"
    /\ PROMPT = PROMPT_rate
    /\ kwargsA = [input |-> <<"a">>, output |-> <<>>, expected |-> <<>>]
    /\ kwargsB = [input |-> <<>>, output |-> <<>>, expected |-> <<"a">>]
    /\ contentA.kind = "return"
    /\ contentB.kind = "return"
    /\ contentA.text # contentB.text

---------------------------------------------------------------------------
(* C21..C30                                                                *)

\* C21: every judge request carries exactly one tool and a tool_choice naming
\* it; the tool's parameters list the verdict field as required and restrict
\* it to the declared domain (rating: integer from 1 to 10; choice: one of
\* A, B, C, D, E); the request is sent with temperature 0.
C21_RequestForcesSchema ==
    requests > 0 =>
        /\ Len(request.tools) = 1
        /\ request.tool_choice = request.tools[1].name
        /\ request.temperature = 0
        /\ LET tool == request.tools[1]
               fld == VerdictField(experiment)
           IN  /\ fld \in DOMAIN tool.properties
               /\ fld \in tool.required
               /\ IF experiment = "Classifier"
                  THEN /\ tool.properties[fld].type = "string"
                       /\ tool.properties[fld].enum = {"A", "B", "C", "D", "E"}
                  ELSE /\ tool.properties[fld].type = "integer"
                       /\ tool.properties[fld].bounded
                       /\ tool.properties[fld].minimum = 1
                       /\ tool.properties[fld].maximum = 10

C21_Witness ==
    /\ pc = "awaiting"
    /\ experiment = "Classifier"
    /\ requests = 1
    /\ request.tool_choice = "rate"
    /\ "choice" \in request.tools[1].required

\* C22: data() yields one record per element of hallucinations, in order,
\* with the element's fields as input, expected = 0 and metadata
\* hallucination = True; an element the filter dropped has no record, and
\* hallucinations is not modified.
C22_DataOnePerHallucination ==
    /\ [](cell = "data" =>
            /\ Len(yielded) = Len(hallucinations.list)
            /\ \A k \in DOMAIN yielded :
                /\ yielded[k].input = hallucinations.list[k]
                /\ yielded[k].expected = PyInt(0)
                /\ yielded[k].metadata.hallucination = TRUE
            /\ \A j \in DOMAIN ha_content :
                ~KeepsAnswer(ha_content[j])
                    => \A k \in DOMAIN yielded :
                        yielded[k].input.question # qa_pairs[j].question)
    /\ [][cell = "filtered" => hallucinations' = hallucinations]_vars

C22_Witness ==
    /\ cell = "data"
    /\ Len(yielded) = 2
    /\ Len(qa_pairs) > 2
    /\ ~KeepsAnswer(ha_content[2])
    /\ yielded[2].input.question = qa_pairs[3].question
    /\ yielded[2].expected = PyInt(0)

\* the indices of the elements the filter keeps
PassingIndices == {k \in DOMAIN ha_content : KeepsAnswer(ha_content[k])}

\* C24: whatever order the hallucinate_answer requests end in, the k-th
\* element of hallucinated_answers is what the task of qa_pairs[k] returned,
\* and every element of hallucinations has the passage, question and
\* expected_answer of the element whose task produced its generated_answer.
C24_AnswersPairedByPosition ==
    /\ hallucinated_answers.bound =>
        /\ Len(hallucinated_answers.list) = Len(qa_pairs)
        /\ \A k \in DOMAIN qa_pairs : hallucinated_answers.list[k] = ha_content[k]
    /\ cell \in {"filtered", "data"} =>
        /\ Len(hallucinations.list) = Cardinality(PassingIndices)
        /\ \A k \in PassingIndices :
            hallucinations.list[Cardinality({j \in PassingIndices : j <= k})]
                = Hallucination(k)

C24_Witness ==
    /\ cell = "filtered"
    /\ ha_order[1] # 1
    /\ ha_content[1] # ha_content[ha_order[1]]
    /\ KeepsAnswer(ha_content[1])
    /\ KeepsAnswer(ha_content[ha_order[1]])
    /\ hallucinations.list[1] = Hallucination(1)

\* C23: two runs of the generation cell that start from the same seed and
\* the same qa_pairs produce the same hallucinations list.
C23_SeedReproducible ==
    (genA.ran /\ genB.ran /\ genA.seed = genB.seed)
        => genA.hallucinations = genB.hallucinations

\* a judge invocation is made in this step
InvokedNow(c) == c = NoCall /\ c' # NoCall

\* what the step's invocation of numeric_rater sends, by the cell that assigned
\* PROMPT last: its instructions, and the tool with the 1-10 rating
SendsPromptOf(c) ==
    (c'.fn = "numeric_rater") =>
        /\ c'.content.kind = "return"
        /\ prompt_cell = "classifier" => Contains(c'.content.text, <<TailChoice>>)
        /\ prompt_cell = "rater" => Contains(c'.content.text, <<TailRate>>)
        /\ Len(c'.tools) = 1
        /\ "rating" \in c'.tools[1].required
        /\ c'.tools[1].properties["rating"] = IntegerSchema(1, 10)

\* C26: a judge renders the template PROMPT is bound to at the moment of the
\* call: once the classifier's cell has assigned PROMPT, every later call of
\* numeric_rater sends the A-E classification instructions while its tool still
\* asks for the 1-10 rating, until the numeric rater's cell is run again.
C26_PromptReadAtCallTime ==
    /\ [][(InvokedNow(callA) => SendsPromptOf(callA))
            /\ (InvokedNow(callB) => SendsPromptOf(callB))]_vars
    /\ [](/\ prompt_cell = "classifier" => PROMPT = PROMPT_choice
          /\ prompt_cell = "rater" => PROMPT = PROMPT_rate)

C26_Witness ==
    /\ callA.fn = "numeric_rater"
    /\ Contains(callA.content.text, <<TailRate>>)
    /\ callB.fn = "numeric_rater"
    /\ Contains(callB.content.text, <<TailChoice>>)
    /\ "rating" \in callB.tools[1].required
    /\ prompt_cell = "rater"

\* C25: with the cells run in document order each Eval run calls the judge
\* its experiment name states: "Numeric rater" the rating-only numeric_rater,
\* "Numeric rater with reasoning" the redefined numeric_rater whose tool has
\* the reasons field (through the unchanged task), "Classifier" the classifier
\* (through the redefined task).
C25_EvalUsesNamedJudge ==
    (phase = "document" /\ eval_run # NoEvalRun) =>
        /\ eval_run.experiment_name = "Numeric rater" =>
            /\ eval_run.judge = "plain"
            /\ DOMAIN eval_run.tools[1].properties = {"rating"}
            /\ eval_run.result = numeric_rater(eval_run.response)
        /\ eval_run.experiment_name = "Numeric rater with reasoning" =>
            /\ eval_run.judge = "reasoning"
            /\ DOMAIN eval_run.tools[1].properties = {"reasons", "rating"}
            /\ bindings.task = "numeric_rater"
            /\ eval_run.result = numeric_rater_with_reasoning(eval_run.response)
        /\ eval_run.experiment_name = "Classifier" =>
            /\ eval_run.judge = "bound"
            /\ DOMAIN eval_run.tools[1].properties = {"reasons", "choice"}
            /\ bindings.task = "classifier"
            /\ eval_run.result = classifier(eval_run.response)

C25_Witness ==
    /\ phase = "document"
    /\ doc_pos = 4
    /\ eval_run.experiment_name = "Numeric rater with reasoning"
    /\ eval_run.judge = "reasoning"
    /\ bindings.task = "numeric_rater"
    /\ eval_run.result = Return(PyInt(1))

---------------------------------------------------------------------------
(* examples/custom_image_embedding_search.ipynb: the image paths of the    *)
(* directory, the index of their embeddings, the search for the two most   *)
(* similar images, and the lookup of the selected image's description.     *)
(* A path is a sequence of symbols: the directory, the stem of the file    *)
(* name and its suffixes.                                                  *)

\* image_database/ holds at most MaxFiles files
MaxFiles == 3
\* description.json holds at most MaxEntries lines
MaxEntries == 2
\* the inner product of the query with an indexed embedding is in 0..MaxScore
MaxScore == 1

\* index.search(query, 2): the number of neighbours asked for
TopK == 2

direc == <<"image_database/">>

FileNames ==
    {<<"train1", ".jpeg">>, <<"train2", ".jpeg">>, <<"train3", ".jpeg">>,
     <<"train4", ".jpeg", ".txt">>}

\* os.listdir: the names of the directory, each once, in the order the
\* file system gives them
Listings ==
    UNION {{l \in [1..n -> FileNames] : \A i, j \in 1..n : i # j => l[i] # l[j]} :
           n \in 0..MaxFiles}

\* faulty variant of endswith: the suffix anywhere in the name
endswith_anywhere(name, suffix) == \E k \in DOMAIN name : name[k] = suffix

\* str.endswith
endswith(name, suffix) == Len(name) > 0 /\ name[Len(name)] = suffix

\* os.path.join(directory, filename), the directory ending in its separator
join(directory, filename) == directory \o filename

\* faulty variant of Found: a negative number stops at the first image
FoundOrNegative(number, count) ==
    number.t # "none" /\ (count = number.num \/ number.num < 0)

\* number is not None and count == number
Found(number, count) == number.t # "none" /\ count = number.num

RECURSIVE ScanFrom(_, _, _, _, _)
\* the loop of get_image_paths from the k-th name on
ScanFrom(names, number, k, paths, count) ==
    IF k > Len(names) THEN paths
    ELSE IF endswith(names[k], ".jpeg")
    THEN LET appended == Append(paths, join(direc, names[k])) IN
         IF Found(number, count) THEN <<appended[Len(appended)]>>
         ELSE ScanFrom(names, number, k + 1, appended, count + 1)
    ELSE ScanFrom(names, number, k + 1, paths, count)

\* get_image_paths(directory, number), names being os.listdir(directory)
get_image_paths(names, number) == ScanFrom(names, number, 1, <<>>, 0)

\* list[0]
Subscript0(list) ==
    IF Len(list) = 0 THEN Raise("IndexError") ELSE Return(Str(list[1]))

\* the values get_image_paths is called with
Numbers == {PyNone} \cup {PyInt(n) : n \in (0 - MaxFiles)..MaxFiles}

\* one (index, distance) pair of zip(indices, distances)
Pair(idx, distance) == [idx |-> idx, distance |-> distance]

\* what the search reports in place of a neighbour the index does not have:
\* label -1 and the lowest distance
Missing == Pair(0 - 1, 0 - 1 - MaxScore)

Scores == 0..MaxScore

Min2(a, b) == IF a < b THEN a ELSE b

\* index.search on the inner-product index: products[i + 1] is the inner product
\* of the query with the embedding at position i. The k neighbours of largest
\* inner product come first to last in decreasing inner product, equal ones
\* in any order, and the places the index cannot fill hold Missing.
search(products, k) ==
    LET n == Len(products)
        m == Min2(n, k)
        Found1 == {Pair(i, products[i + 1]) : i \in 0..(n - 1)}
    IN  {r \in [1..k -> Found1 \cup {Missing}] :
            /\ \A j \in 1..m : r[j] \in Found1
            /\ \A j \in (m + 1)..k : r[j] = Missing
            /\ \A i, j \in 1..m :
                i < j => r[i].idx # r[j].idx /\ r[i].distance >= r[j].distance
            /\ \A p \in Found1 :
                (\A j \in 1..m : r[j].idx # p.idx)
                    => \A j \in 1..m : p.distance <= r[j].distance}

RECURSIVE InsertDescending(_, _)
\* x put into a list of decreasing distance, after the pairs of equal distance
InsertDescending(sorted, x) ==
    IF sorted = <<>> THEN <<x>>
    ELSE IF Head(sorted).distance >= x.distance
    THEN <<Head(sorted)>> \o InsertDescending(Tail(sorted), x)
    ELSE <<x>> \o sorted

RECURSIVE sort_reverse(_)
\* list.sort(key=lambda x: x[1], reverse=True): decreasing distance, pairs of
\* equal distance in their original order
sort_reverse(list) ==
    IF list = <<>> THEN <<>>
    ELSE InsertDescending(sort_reverse(SubSeq(list, 1, Len(list) - 1)), list[Len(list)])

\* the lines of description.json: with image_path and description, with an
\* image_path that is the bare file name, without one of the keys
DescriptionEntries ==
    {[image_path |-> Str(join(direc, <<"train1", ".jpeg">>)), description |-> Str(<<"d1">>)],
     [image_path |-> Str(join(direc, <<"train1", ".jpeg">>)), description |-> Str(<<"d2">>)],
     [image_path |-> Str(<<"train1", ".jpeg">>), description |-> Str(<<"d3">>)],
     [description |-> Str(<<"d5">>)],
     [image_path |-> Str(join(direc, <<"train2", ".jpeg">>))]}

Descriptions == UNION {[1..n -> DescriptionEntries] : n \in 0..MaxEntries}

\* what find_entry returns: an entry of the list, or None
Element(entry) == [t |-> "dict", entry |-> entry]
NoneElement == [t |-> "none", entry |-> <<>>]

\* dict.get(key)
get(entry, key) == IF key \in DOMAIN entry THEN entry[key] ELSE NoneContent

\* faulty variant of find_entry: the last entry that matches
find_entry_last(list, key, value) ==
    LET matches == {k \in 1..Len(list) : get(list[k], key) = value} IN
    IF matches = {} THEN NoneElement
    ELSE Element(list[CHOOSE k \in matches : \A j \in matches : j <= k])

RECURSIVE FindFrom(_, _, _, _)
\* the loop of find_entry from the k-th entry on
FindFrom(list, key, value, k) ==
    IF k > Len(list) THEN NoneElement
    ELSE IF get(list[k], key) = value THEN Element(list[k])
    ELSE FindFrom(list, key, value, k + 1)

\* find_entry(data, key, value)
find_entry(list, key, value) == FindFrom(list, key, value, 1)

\* element['description'] inside the prompt
DescriptionOf(element) ==
    IF element.t = "none" THEN Raise("TypeError")
    ELSE IF "description" \notin DOMAIN element.entry THEN Raise("KeyError")
    ELSE Return(element.entry["description"])

\* the selection cell: similar_path, element, and the prompt's description
Select(names, pairs, entries) ==
    LET similar_path == Subscript0(get_image_paths(names, PyInt(pairs[1].idx))) IN
    IF similar_path.kind = "raise"
    THEN [similar_path |-> similar_path, element |-> NoElement, prompt |-> similar_path]
    ELSE LET element == find_entry(entries, "image_path", similar_path.value) IN
         [similar_path |-> similar_path, element |-> element,
          prompt |-> DescriptionOf(element)]

judgeVars ==
    <<experiment, phase, callVars, evalVars, metricVars, PROMPT, formatVars, dataVars,
      cellVars, seedVars>>

JudgeIdle ==
    /\ experiment = "Numeric rater"
    /\ CallIdle
    /\ EvalIdle
    /\ MetricIdle
    /\ PROMPT = PROMPT_rate
    /\ FormatIdle
    /\ DataIdle
    /\ CellsIdle
    /\ SeedIdle

InitImage ==
    /\ JudgeIdle
    /\ phase = "image"
    /\ listdir \in Listings
    /\ lookup = NoLookup
    /\ image_cell = "idle"
    /\ image_paths = <<>>
    /\ index = <<>>
    /\ retrieved = <<>>
    /\ indices_distances = <<>>
    /\ displayed = <<>>
    /\ json_data \in Descriptions
    /\ selection = NoSelection

\* image_paths = get_image_paths(direc)
ListCell ==
    /\ image_cell = "idle"
    /\ image_paths' = get_image_paths(listdir, PyNone)
    /\ image_cell' = "listed"
    /\ UNCHANGED <<judgeVars, listdir, lookup, index, retrieved, indices_distances,
                   displayed, json_data, selection>>

\* image_features = get_features_from_image_path(image_paths), which stacks
\* one array per path and fails on no path; index.add(image_features)
IndexCell ==
    /\ image_cell = "listed"
    /\ IF image_paths = <<>>
       THEN image_cell' = "aborted" /\ index' = index
       ELSE image_cell' = "indexed" /\ index' = image_paths
    /\ UNCHANGED <<judgeVars, listdir, lookup, image_paths, retrieved,
                   indices_distances, displayed, json_data, selection>>

\* the search cell: the two neighbours of the query image, zipped and sorted
SearchCell ==
    /\ image_cell = "indexed"
    /\ \E products \in [1..Len(index) -> Scores] :
        \E r \in search(products, TopK) :
            /\ retrieved' = r
            /\ indices_distances' = sort_reverse(r)
    /\ image_cell' = "searched"
    /\ UNCHANGED <<judgeVars, listdir, lookup, image_paths, index, displayed,
                   json_data, selection>>

\* for idx, distance in indices_distances: path = get_image_paths(direc, idx)[0]
DisplayCell ==
    /\ image_cell = "searched"
    /\ displayed' = [j \in 1..Len(indices_distances) |->
                        Subscript0(get_image_paths(listdir, PyInt(indices_distances[j].idx)))]
    /\ image_cell' = "displayed"
    /\ UNCHANGED <<judgeVars, listdir, lookup, image_paths, index, retrieved,
                   indices_distances, json_data, selection>>

\* similar_path = get_image_paths(direc, indices_distances[0][0])[0];
\* element = find_entry(data, 'image_path', similar_path); the prompt
SelectCell ==
    /\ image_cell = "displayed"
    /\ selection' = Select(listdir, indices_distances, json_data)
    /\ image_cell' = "selected"
    /\ UNCHANGED <<judgeVars, listdir, lookup, image_paths, index, retrieved,
                   indices_distances, displayed, json_data>>

NextImage == ListCell \/ IndexCell \/ SearchCell \/ DisplayCell \/ SelectCell

SpecImage == InitImage /\ [][NextImage]_vars

\* get_image_paths on its own: the directory drawn from the listings, the
\* number from the integers around the number of files
InitPaths ==
    /\ JudgeIdle
    /\ phase = "paths"
    /\ listdir \in Listings
    /\ lookup = NoLookup
    /\ image_cell = "idle"
    /\ image_paths = <<>>
    /\ index = <<>>
    /\ retrieved = <<>>
    /\ indices_distances = <<>>
    /\ displayed = <<>>
    /\ json_data = <<>>
    /\ selection = NoSelection

\* get_image_paths(direc, number)[0]
GetImagePaths ==
    /\ image_cell \in {"indexed", "aborted"}
    /\ ~lookup.called
    /\ \E number \in Numbers :
        LET paths == get_image_paths(listdir, number) IN
        lookup' = [called |-> TRUE, number |-> number, result |-> paths,
                   first |-> Subscript0(paths)]
    /\ UNCHANGED <<judgeVars, listdir, image_cell, image_paths, index, retrieved,
                   indices_distances, displayed, json_data, selection>>

NextPaths == ListCell \/ IndexCell \/ GetImagePaths

SpecPaths == InitPaths /\ [][NextPaths]_vars

\* the names of the listing whose last suffix is '.jpeg', in listing order
IsJpeg(name) == Len(name) > 0 /\ name[Len(name)] = ".jpeg"
JpegFiles == SelectSeq(listdir, IsJpeg)
NumJpeg == Len(JpegFiles)
\* the full list of '.jpeg' paths of the directory
AllJpegPaths == [k \in 1..NumJpeg |-> join(direc, JpegFiles[k])]
\* get_image_paths was called with an integer
LookedUpInt == lookup.called /\ lookup.number.t = "num"

\* C27: after the search cell, indices_distances[0] is the retrieved pair of
\* smallest distance, and indices_distances is a permutation of the retrieved
\* pairs
C27_MostSimilarHasSmallestDistance ==
    image_cell \in {"searched", "displayed", "selected"} =>
        /\ \A j \in 1..Len(retrieved) :
            indices_distances[1].distance <= retrieved[j].distance
        /\ Len(indices_distances) = Len(retrieved)
        /\ \A p \in {retrieved[j] : j \in 1..Len(retrieved)} :
            Cardinality({j \in 1..Len(retrieved) : retrieved[j] = p})
                = Cardinality({j \in 1..Len(indices_distances) : indices_distances[j] = p})

\* C28: for 0 <= i < number of '.jpeg' files, get_image_paths(directory, i)
\* is the one-element list holding the i-th '.jpeg' path of the listing, which
\* is get_image_paths(directory)[i] and the image whose embedding is at
\* position i of the index; files without the suffix do not count
C28_LookupByPosition ==
    (LookedUpInt /\ lookup.number.num >= 0 /\ lookup.number.num < NumJpeg) =>
        LET i == lookup.number.num IN
        /\ lookup.result = <<join(direc, JpegFiles[i + 1])>>
        /\ lookup.result = <<image_paths[i + 1]>>
        /\ lookup.result = <<index[i + 1]>>
        /\ lookup.first = Return(Str(image_paths[i + 1]))

\* a lookup of the second image of a directory whose first file is not an image
C28_Witness ==
    /\ LookedUpInt
    /\ lookup.number.num = 1
    /\ NumJpeg = 2
    /\ Len(listdir) = 3
    /\ ~IsJpeg(listdir[1])
    /\ lookup.first = Return(Str(join(direc, listdir[3])))

\* C29 as stated: for a number that is negative or at least the number of
\* '.jpeg' files, get_image_paths returns the full list, which is not a
\* one-element list, and [0] is the first image or fails on an empty directory
C29_OutOfRangeNeverOneElement ==
    (LookedUpInt /\ (lookup.number.num < 0 \/ lookup.number.num >= NumJpeg)) =>
        /\ lookup.result = AllJpegPaths
        /\ Len(lookup.result) # 1
        /\ lookup.first = IF NumJpeg = 0 THEN Raise("IndexError")
                          ELSE Return(Str(join(direc, JpegFiles[1])))

\* C29: for a number that is negative or at least the number of '.jpeg'
\* files, get_image_paths returns the full list of '.jpeg' paths (of one
\* element exactly when the directory holds one '.jpeg' file), and [0] is the
\* first image of the directory or fails on a directory without '.jpeg' file
C29_OutOfRangeReturnsAll ==
    (LookedUpInt /\ (lookup.number.num < 0 \/ lookup.number.num >= NumJpeg)) =>
        /\ lookup.result = AllJpegPaths
        /\ lookup.result = image_paths
        /\ (Len(lookup.result) = 1) = (NumJpeg = 1)
        /\ lookup.first = IF NumJpeg = 0 THEN Raise("IndexError")
                          ELSE Return(Str(join(direc, JpegFiles[1])))

\* a lookup of -1 in a directory of two images gives both and selects the first
C29_Witness ==
    /\ LookedUpInt
    /\ lookup.number.num = 0 - 1
    /\ NumJpeg = 2
    /\ Len(lookup.result) = 2
    /\ lookup.first = Return(Str(join(direc, JpegFiles[1])))

\* the places of data whose entry has the key image_path with the value path
MatchingEntries(path) ==
    {k \in 1..Len(json_data) :
        "image_path" \in DOMAIN json_data[k] /\ json_data[k]["image_path"] = path}

\* what the selection cell leaves: the element is the first matching entry, or
\* None without a match, and the description is read only with a match
FoundFirstOrNone ==
    LET matches == MatchingEntries(selection.similar_path.value) IN
    /\ selection.similar_path.kind = "return"
    /\ IF matches = {}
       THEN /\ selection.element = NoneElement
            /\ selection.prompt = Raise("TypeError")
       ELSE /\ \E k \in matches :
                /\ \A j \in matches : k <= j
                /\ selection.element = Element(json_data[k])
    /\ selection.prompt.kind = "return" => matches # {}

\* C30: find_entry returns the first entry, in list order, whose value under
\* key equals value, and None when no entry matches (entries lacking the key
\* included), raising nothing and leaving data as it was; the description
\* lookup succeeds only if an entry's image_path equals the retrieved path
C30_FindEntryFirstOrNone ==
    [][(image_cell # "selected" /\ image_cell' = "selected")
        => (json_data' = json_data /\ FoundFirstOrNone')]_vars

\* two entries carry the retrieved path with different descriptions and the
\* first one is the element
C30_Witness ==
    /\ image_cell = "selected"
    /\ Len(json_data) = 2
    /\ MatchingEntries(selection.similar_path.value) = {1, 2}
    /\ json_data[1] # json_data[2]
    /\ selection.element = Element(json_data[1])
    /\ selection.prompt = Return(json_data[1]["description"])

=============================================================================
